---- MODULE Spec2Model ----
(***************************************************************************)
(* Model of pkg/operator/webhookdeployment/webhook.go: the sync handler of *)
(* csiSnapshotWebhookController, which renders the webhook Deployment and  *)
(* the ValidatingWebhookConfiguration, applies both to the cluster and     *)
(* reports the Available / Progressing conditions and the generations of   *)
(* the applied objects in the operator status.                             *)
(*                                                                         *)
(* One sync call is a sequence of steps separated by remote calls; other   *)
(* writers of the cluster (the deployment controller of the platform, a    *)
(* user editing the objects, the administrator changing the operator       *)
(* configuration) take steps in between.                                   *)
(***************************************************************************)
EXTENDS Integers, Sequences, FiniteSets, TLC

\* ------------------------------------------------------------------ bounds
MaxNodes == 2        \* nodes the cluster may hold
MaxCycles == 2       \* sync invocations explored in one behaviour
MaxEnvChanges == 1   \* changes made by other writers than sync

\* --------------------------------------------------------------- constants
NoGeneration == 0 - 1   \* ExpectedDeploymentGeneration without a record

Kinds == {"deployments", "validatingwebhookconfigurations"}

ManagementStates == {"Managed", "Unmanaged", "Removed"}
LogLevels == {"Normal", "Debug", "Bogus"}

MasterLabel == "node-role.kubernetes.io/master"
NodeLabelSets == {{}, {MasterLabel}}

WebhookImage == "webhook-image"

\* webhook_config.yaml as shipped by two operator versions, and an asset
\* that does not decode.
WebhookAssets == {"rules-v1", "rules-v2", "malformed"}

VARIABLES
    \* the cluster, owned by the API server
    operatorConfig,     \* the operator CR's spec, or absent
    operatorStatus,     \* the operator CR's status
    clusterNodes,       \* label set -> number of nodes carrying exactly these labels
    liveDeployment,     \* the webhook Deployment in the cluster
    liveWebhook,        \* the ValidatingWebhookConfiguration in the cluster
    \* the operator binary
    webhookAsset,       \* generated.MustAsset(webhookAsset)
    \* one sync call
    pc,                 \* the step sync is about to take, "Idle" between calls
    opSpec, opStatus,   \* line 91
    deployment,         \* lines 102, 123, 126
    nodes,              \* line 110: len(nodes)
    webhookConfig,      \* lines 132, 137
    deploymentAvailable, deploymentProgressing,   \* lines 144, 156
    err,                \* what sync returns
    \* bookkeeping of the exploration
    cycle,              \* sync calls started
    envChanges,         \* changes by other writers so far
    steps,              \* the steps the current call has taken
    changed,            \* the `changed` results of the two applies (dropped by sync)
    atStart,            \* the cluster when the current call started
    edited,             \* the kinds another writer changed since sync last applied them
    prev                \* the inputs of the last call that returned nil after a status write,
                        \* and (.writeFailed) whether the call before the present one
                        \* ended in a failed status write

clusterVars == <<operatorConfig, operatorStatus, clusterNodes, liveDeployment, liveWebhook, webhookAsset>>
localVars == <<opSpec, opStatus, deployment, nodes, webhookConfig, deploymentAvailable, deploymentProgressing>>
histVars == <<cycle, envChanges, steps, changed, atStart, edited, prev>>
vars == <<clusterVars, pc, localVars, err, histVars>>

\* ------------------------------------------------------------ cluster objects
\* A Deployment: desired (as rendered, no generation, no status) or live.
\* Spec.Replicas is a pointer: <<>> is nil, <<n>> points to n.
NoDeploymentSpec == [image |-> "", verbosity |-> 0, nodeSelector |-> {}, replicas |-> <<>>]
NoDeploymentStatus == [observedGeneration |-> 0, availableReplicas |-> 0, updatedReplicas |-> 0]
NoDeployment == [exists |-> FALSE, spec |-> NoDeploymentSpec, generation |-> 0, status |-> NoDeploymentStatus]

\* A ValidatingWebhookConfiguration: its spec-hash annotation and its Webhooks[].
NoWebhookSpec == [specHash |-> <<>>, webhooks |-> ""]
NoWebhook == [exists |-> FALSE, spec |-> NoWebhookSpec, generation |-> 0]

\* An OperatorCondition; present = FALSE is a condition the status does not hold.
NoMessage == [text |-> "", a |-> 0, b |-> 0]
NoCondition == [present |-> FALSE, status |-> "", reason |-> "", message |-> NoMessage]

\* OperatorStatus: the two conditions of this controller and Generations[],
\* a function from the kinds that have a record to their LastGeneration.
EmptyGenerations == [k \in {} |-> 0]
EmptyStatus == [available |-> NoCondition, progressing |-> NoCondition, generations |-> EmptyGenerations]

\* The operator CR's spec; exists = FALSE when the CR is not there.
NoConfig == [exists |-> FALSE, managementState |-> "", logLevel |-> ""]
Configs == {NoConfig} \cup [exists : {TRUE}, managementState : ManagementStates, logLevel : LogLevels]

RECURSIVE SumOver(_, _)
SumOver(f, S) == IF S = {} THEN 0 ELSE LET x == CHOOSE y \in S : TRUE IN f[x] + SumOver(f, S \ {x})

NodeCounts == {f \in [NodeLabelSets -> 0..MaxNodes] : SumOver(f, NodeLabelSets) <= MaxNodes}

\* ------------------------------------------------------------- library calls
\* loglevel.ValidLogLevel
ValidLogLevel(logLevel) == logLevel \in {"Normal", "Debug", "Trace", "TraceAll"}

\* loglevel.LogLevelToVerbosity
LogLevelToVerbosity(logLevel) ==
    CASE logLevel = "Normal" -> 2
      [] logLevel = "Debug" -> 4
      [] logLevel = "Trace" -> 6
      [] logLevel = "TraceAll" -> 8
      [] OTHER -> 2

\* nodeLister.List(labels.SelectorFromSet(nodeSelector)): the number of nodes
\* that carry every label of the selector.
ListNodes(nodeSelector) ==
    SumOver(clusterNodes, {l \in NodeLabelSets : nodeSelector \subseteq l})

\* resourceapply.SetSpecHashAnnotation: a hash of the given content.
SpecHash(content) == <<"sha256", content>>

\* resourcemerge.ExpectedDeploymentGeneration / ExpectedValidatingWebhooksConfiguration
ExpectedGeneration(kind, generations) ==
    IF kind \in DOMAIN generations THEN generations[kind] ELSE NoGeneration

\* apierrors.IsNotFound
IsNotFound(e) == e = "NotFound"

\* resourcemerge.SetDeploymentGeneration / SetValidatingWebhooksConfigurationGeneration
SetGeneration(generations, kind, object) ==
    [k \in DOMAIN generations \cup {kind} |->
        IF k = kind THEN object.generation ELSE generations[k]]

\* resourceapply.ApplyDeployment / ApplyValidatingWebhookConfiguration against
\* the live object: create when there is none, update when the spec differs,
\* leave alone otherwise. lastGeneration takes no part in the decision.
Apply(live, required, lastGeneration) ==
    IF ~live.exists
    THEN [live |-> [required EXCEPT !.exists = TRUE, !.generation = 1], changed |-> TRUE]
    ELSE IF live.spec # required.spec
    THEN [live |-> [live EXCEPT !.spec = required.spec, !.generation = @ + 1], changed |-> TRUE]
    ELSE [live |-> live, changed |-> FALSE]

\* v1helpers.UpdateStatus with the three update functions of lines 183-187,
\* applied to the status the CR holds at that moment.
UpdateStatus(status, available, progressing, newGenerations) ==
    [available |-> [available EXCEPT !.present = TRUE],
     progressing |-> [progressing EXCEPT !.present = TRUE],
     generations |-> newGenerations]

\* ----------------------------------------------------------------- rendering
\* spec.replicas of webhook_deployment.yaml; line 123 overwrites it on every call.
TemplateReplicas == <<>>

\* A rendering that differs from one sync call to the next.
getDeployment_Stamped(spec) ==
    IF ~ValidLogLevel(spec.logLevel)
    THEN [err |-> "InvalidLogLevel", deployment |-> NoDeployment]
    ELSE [err |-> "nil",
          deployment |-> [NoDeployment EXCEPT
              !.spec = [image |-> WebhookImage,
                        verbosity |-> LogLevelToVerbosity(spec.logLevel) + cycle,
                        nodeSelector |-> {MasterLabel},
                        replicas |-> TemplateReplicas]]]

\* A rendering without the check of line 197.
getDeployment_NoValidation(spec) ==
    [err |-> "nil",
     deployment |-> [NoDeployment EXCEPT
         !.spec = [image |-> WebhookImage,
                   verbosity |-> LogLevelToVerbosity(spec.logLevel),
                   nodeSelector |-> {MasterLabel},
                   replicas |-> TemplateReplicas]]]

\* getDeployment, lines 191-206: the template with image and verbosity filled in.
getDeployment(spec) ==
    IF ~ValidLogLevel(spec.logLevel)
    THEN [err |-> "InvalidLogLevel", deployment |-> NoDeployment]
    ELSE [err |-> "nil",
          deployment |-> [NoDeployment EXCEPT
              !.spec = [image |-> WebhookImage,
                        verbosity |-> LogLevelToVerbosity(spec.logLevel),
                        nodeSelector |-> {MasterLabel},
                        replicas |-> TemplateReplicas]]]

\* The decoded asset without the annotation of line 217.
getWebhookConfig_NoHash ==
    IF webhookAsset = "malformed"
    THEN [err |-> "DecodeError", webhookConfig |-> NoWebhook]
    ELSE [err |-> "nil",
          webhookConfig |-> [NoWebhook EXCEPT !.spec = [NoWebhookSpec EXCEPT !.webhooks = webhookAsset]]]

\* getWebhookConfig, lines 208-219: the decoded asset with the hash of its Webhooks[].
getWebhookConfig ==
    IF webhookAsset = "malformed"
    THEN [err |-> "DecodeError", webhookConfig |-> NoWebhook]
    ELSE [err |-> "nil",
          webhookConfig |-> [NoWebhook EXCEPT
              !.spec = [specHash |-> SpecHash(webhookAsset), webhooks |-> webhookAsset]]]

Replicas_AnyNode(n) == IF n >= 1 THEN 2 ELSE 1

\* Two replicas are kept when the call before saw more than one node.
Replicas_Hysteresis(n) == IF n > 1 \/ (prev.valid /\ prev.nodes[{MasterLabel}] > 1) THEN 2 ELSE 1

\* Lines 119-122.
Replicas(n) == IF n > 1 THEN 2 ELSE 1

updateGenerationFn_Swapped(generations, d, w) ==
    SetGeneration(SetGeneration(generations, "deployments", w), "validatingwebhookconfigurations", d)

updateGenerationFn_WorkloadOnly(generations, d, w) ==
    SetGeneration(generations, "deployments", d)

\* Lines 177-181.
updateGenerationFn(generations, d, w) ==
    SetGeneration(SetGeneration(generations, "deployments", d), "validatingwebhookconfigurations", w)

ComputeAvailable_AllReplicas(d) ==
    IF d.spec.replicas = <<d.status.availableReplicas>>
    THEN [NoCondition EXCEPT !.status = "True"]
    ELSE [NoCondition EXCEPT !.status = "False", !.reason = "Deploying",
              !.message = [NoMessage EXCEPT !.text = "Waiting for a validating webhook Deployment pod to start"]]

\* Lines 144-153.
ComputeAvailable(d) ==
    IF d.status.availableReplicas > 0
    THEN [NoCondition EXCEPT !.status = "True"]
    ELSE [NoCondition EXCEPT !.status = "False", !.reason = "Deploying",
              !.message = [NoMessage EXCEPT !.text = "Waiting for a validating webhook Deployment pod to start"]]

ComputeProgressing_NoGenerationCheck(d) ==
    IF d.spec.replicas # <<>>
    THEN IF d.status.updatedReplicas = d.spec.replicas[1]
         THEN [NoCondition EXCEPT !.status = "False"]
         ELSE [NoCondition EXCEPT !.status = "True", !.reason = "Deploying",
                   !.message = [text |-> "%d out of %d pods running",
                                 a |-> d.status.updatedReplicas, b |-> d.spec.replicas[1]]]
    ELSE NoCondition

\* Lines 156-175.
ComputeProgressing(d) ==
    IF d.status.observedGeneration # d.generation
    THEN [NoCondition EXCEPT !.status = "True", !.reason = "Deploying",
              !.message = [text |-> "desired generation %d, current generation %d",
                            a |-> d.generation, b |-> d.status.observedGeneration]]
    ELSE IF d.spec.replicas # <<>>
    THEN IF d.status.updatedReplicas = d.spec.replicas[1]
         THEN [NoCondition EXCEPT !.status = "False"]
         ELSE [NoCondition EXCEPT !.status = "True", !.reason = "Deploying",
                   !.message = [text |-> "%d out of %d pods running",
                                 a |-> d.status.updatedReplicas, b |-> d.spec.replicas[1]]]
    ELSE NoCondition


\* ---------------------------------------------------------------------- Init
NoPrev == [valid |-> FALSE, opSpec |-> NoConfig, nodes |-> [l \in NodeLabelSets |-> 0], asset |-> "",
           writeFailed |-> FALSE]

\* The controller starts against a cluster that holds neither object yet; the
\* operator CR, the nodes and the shipped asset are whatever they are.
Init ==
    /\ operatorConfig \in Configs
    /\ operatorStatus = EmptyStatus
    /\ clusterNodes \in NodeCounts
    /\ liveDeployment = NoDeployment
    /\ liveWebhook = NoWebhook
    /\ webhookAsset \in WebhookAssets
    /\ pc = "Idle"
    /\ opSpec = NoConfig
    /\ opStatus = EmptyStatus
    /\ deployment = NoDeployment
    /\ nodes = 0
    /\ webhookConfig = NoWebhook
    /\ deploymentAvailable = NoCondition
    /\ deploymentProgressing = NoCondition
    /\ err = "nil"
    /\ cycle = 0
    /\ envChanges = 0
    /\ steps = <<>>
    /\ changed = {}
    /\ atStart = EmptyStatus
    /\ edited = {}
    /\ prev = NoPrev

\* ------------------------------------------------------------------ sync
\* The step the last call ended with (or has reached), with its outcome.
LastStep == IF steps = <<>> THEN <<"", "">> ELSE steps[Len(steps)]

\* The trigger substrate calls sync (line 82); one call at a time.
Trigger ==
    /\ pc = "Idle"
    /\ cycle < MaxCycles
    /\ pc' = "ReadConfig"
    /\ cycle' = cycle + 1
    /\ steps' = <<>>
    /\ changed' = {}
    /\ err' = "nil"
    /\ atStart' = operatorStatus
    /\ prev' = [(IF LastStep = <<"PersistStatus", "nil">> THEN prev ELSE NoPrev) EXCEPT
                    !.writeFailed = (LastStep = <<"PersistStatus", "UpdateStatusError">>)]
    /\ UNCHANGED <<clusterVars, localVars, envChanges, edited>>

\* sync returns e: the call is over and its local variables are gone.
Return(e) ==
    /\ pc' = "Idle"
    /\ err' = e
    /\ opSpec' = NoConfig
    /\ opStatus' = EmptyStatus
    /\ deployment' = NoDeployment
    /\ nodes' = 0
    /\ webhookConfig' = NoWebhook
    /\ deploymentAvailable' = NoCondition
    /\ deploymentProgressing' = NoCondition

Continue_HookFirst(next, kept) ==
    /\ pc' = IF next = "ApplyWorkload" THEN "RenderHook" ELSE next
    /\ err' = err
    /\ UNCHANGED kept

\* sync goes on to the next step, with the local variables `kept` as they are.
Continue(next, kept) ==
    /\ pc' = next
    /\ err' = err
    /\ UNCHANGED kept

ReturnErr_Swallow(e) == Return("nil")

\* `if err != nil { return err }`, lines 96, 105, 113, 129, 134 and 188.
ReturnErr(e) == Return(e)

IsManaged_NotRemoved(spec) == spec.managementState # "Removed"

\* Line 98.
IsManaged(spec) == spec.managementState = "Managed"

ApplyCall_SkipOnRecordedGeneration(live, required, lastGeneration) ==
    IF live.exists /\ live.generation = lastGeneration
    THEN [live |-> live, changed |-> FALSE]
    ELSE Apply(live, required, lastGeneration)

\* An apply that writes whenever the object exists, equal or not.
ApplyCall_AlwaysWrites(live, required, lastGeneration) ==
    IF live.exists
    THEN [live |-> [live EXCEPT !.spec = required.spec, !.generation = @ + 1], changed |-> TRUE]
    ELSE Apply(live, required, lastGeneration)

\* Lines 126 and 137: sync applies on every call, whatever the record says.
ApplyCall(live, required, lastGeneration) == Apply(live, required, lastGeneration)

HookApplyFailed_RecordsWorkload(e) ==
    /\ Return(e)
    /\ operatorStatus' = [operatorStatus EXCEPT !.generations = SetGeneration(@, "deployments", deployment)]

\* Lines 138-140: the hook's error is returned before anything is written to the status.
HookApplyFailed(e) == Return(e) /\ UNCHANGED operatorStatus

ReadFailed_AlwaysQuiet(e) == Return("nil")

\* Lines 92-97: not-found is no error for sync, any other error is returned.
ReadFailed(e) == IF IsNotFound(e) THEN Return("nil") ELSE ReturnErr(e)

\* Lines 91-100. GetOperatorState answers with the CR, with not-found when
\* there is none, or fails; steps records a not-found as "nil", the answer
\* being a regular one.
ReadConfig ==
    /\ pc = "ReadConfig"
    /\ \E getErr \in {IF operatorConfig.exists THEN "nil" ELSE "NotFound", "GetOperatorStateError"} :
          /\ steps' = Append(steps, <<"ReadConfig", IF getErr = "NotFound" THEN "nil" ELSE getErr>>)
          /\ IF getErr # "nil"
             THEN ReadFailed(getErr)
             ELSE IF ~IsManaged(operatorConfig)
             THEN Return("nil")
             ELSE
               /\ opSpec' = operatorConfig
               /\ opStatus' = operatorStatus
               /\ Continue("RenderWorkload", <<deployment, nodes, webhookConfig,
                                               deploymentAvailable, deploymentProgressing>>)
    /\ UNCHANGED <<clusterVars, cycle, envChanges, changed, atStart, edited, prev>>

\* Lines 102-106.
RenderWorkload ==
    /\ pc = "RenderWorkload"
    /\ LET r == getDeployment(opSpec) IN
          /\ steps' = Append(steps, <<"RenderWorkload", r.err>>)
          /\ IF r.err # "nil"
             THEN ReturnErr(r.err)
             ELSE
               /\ deployment' = r.deployment
               /\ Continue("SizeReplicas", <<opSpec, opStatus, nodes, webhookConfig,
                                             deploymentAvailable, deploymentProgressing>>)
    /\ UNCHANGED <<clusterVars, cycle, envChanges, changed, atStart, edited, prev>>

\* Lines 108-123.
SizeReplicas ==
    /\ pc = "SizeReplicas"
    /\ \E listErr \in {"nil", "ListNodesError"} :
          /\ steps' = Append(steps, <<"SizeReplicas", listErr>>)
          /\ IF listErr # "nil"
             THEN ReturnErr(listErr)
             ELSE
               /\ nodes' = ListNodes(deployment.spec.nodeSelector)
               /\ deployment' = [deployment EXCEPT !.spec.replicas = <<Replicas(nodes')>>]
               /\ Continue("ApplyWorkload", <<opSpec, opStatus, webhookConfig,
                                              deploymentAvailable, deploymentProgressing>>)
    /\ UNCHANGED <<clusterVars, cycle, envChanges, changed, atStart, edited, prev>>

\* Lines 125-130.
ApplyWorkload ==
    /\ pc = "ApplyWorkload"
    /\ \E applyErr \in {"nil", "ApplyDeploymentError"} :
          /\ steps' = Append(steps, <<"ApplyWorkload", applyErr>>)
          /\ IF applyErr # "nil"
             THEN ReturnErr(applyErr) /\ UNCHANGED <<liveDeployment, changed, edited>>
             ELSE
               LET lastGeneration == ExpectedGeneration("deployments", opStatus.generations)
                   r == ApplyCall(liveDeployment, deployment, lastGeneration) IN
               /\ liveDeployment' = r.live
               /\ deployment' = r.live
               /\ changed' = IF r.changed THEN changed \cup {"deployments"} ELSE changed
               /\ edited' = edited \ {"deployments"}
               /\ Continue("RenderHook", <<opSpec, opStatus, nodes, webhookConfig,
                                           deploymentAvailable, deploymentProgressing>>)
    /\ UNCHANGED <<operatorConfig, operatorStatus, clusterNodes, liveWebhook, webhookAsset,
                   cycle, envChanges, atStart, prev>>

\* Lines 132-135.
RenderHook ==
    /\ pc = "RenderHook"
    /\ LET r == getWebhookConfig IN
          /\ steps' = Append(steps, <<"RenderHook", r.err>>)
          /\ IF r.err # "nil"
             THEN ReturnErr(r.err)
             ELSE
               /\ webhookConfig' = r.webhookConfig
               /\ Continue("ApplyHook", <<opSpec, opStatus, deployment, nodes,
                                          deploymentAvailable, deploymentProgressing>>)
    /\ UNCHANGED <<clusterVars, cycle, envChanges, changed, atStart, edited, prev>>

\* Lines 136-140.
ApplyHook ==
    /\ pc = "ApplyHook"
    /\ \E applyErr \in {"nil", "ApplyWebhookError"} :
          /\ steps' = Append(steps, <<"ApplyHook", applyErr>>)
          /\ IF applyErr # "nil"
             THEN HookApplyFailed(applyErr) /\ UNCHANGED <<liveWebhook, changed, edited>>
             ELSE
               LET lastWebhookGeneration ==
                       ExpectedGeneration("validatingwebhookconfigurations", opStatus.generations)
                   r == ApplyCall(liveWebhook, webhookConfig, lastWebhookGeneration) IN
               /\ liveWebhook' = r.live
               /\ webhookConfig' = r.live
               /\ changed' = IF r.changed THEN changed \cup {"validatingwebhookconfigurations"} ELSE changed
               /\ edited' = edited \ {"validatingwebhookconfigurations"}
               /\ Continue("ComputeStatus", <<opSpec, opStatus, deployment, nodes,
                                              deploymentAvailable, deploymentProgressing>>)
               /\ UNCHANGED operatorStatus
    /\ UNCHANGED <<operatorConfig, clusterNodes, liveDeployment, webhookAsset,
                   cycle, envChanges, atStart, prev>>

StatusSource_LiveNow == liveDeployment

\* Lines 147 and 159-165 read the variable that line 126 assigned.
StatusSource == deployment

\* Lines 142-175.
ComputeStatus ==
    /\ pc = "ComputeStatus"
    /\ steps' = Append(steps, <<"ComputeStatus", "nil">>)
    /\ deploymentAvailable' = ComputeAvailable(StatusSource)
    /\ deploymentProgressing' = ComputeProgressing(StatusSource)
    /\ Continue("PersistStatus", <<opSpec, opStatus, deployment, nodes, webhookConfig>>)
    /\ UNCHANGED <<clusterVars, cycle, envChanges, changed, atStart, edited, prev>>

\* Lines 177-188.
PersistStatus ==
    /\ pc = "PersistStatus"
    /\ \E updateErr \in {"nil", "UpdateStatusError"} :
          /\ steps' = Append(steps, <<"PersistStatus", updateErr>>)
          /\ IF updateErr # "nil"
             THEN ReturnErr(updateErr) /\ UNCHANGED <<operatorStatus, prev>>
             ELSE
               /\ operatorStatus' = UpdateStatus(operatorStatus, deploymentAvailable, deploymentProgressing,
                      updateGenerationFn(operatorStatus.generations, deployment, webhookConfig))
               /\ prev' = [valid |-> TRUE, opSpec |-> opSpec, nodes |-> clusterNodes, asset |-> webhookAsset,
                           writeFailed |-> prev.writeFailed]
               /\ Return("nil")
    /\ UNCHANGED <<operatorConfig, clusterNodes, liveDeployment, liveWebhook, webhookAsset,
                   cycle, envChanges, changed, atStart, edited>>

\* ------------------------------------------------------------ other writers
\* The administrator creates, deletes or edits the operator CR. sync reads the
\* CR once, at line 91, so a change during a call acts like one after it. The
\* status lives in the CR: it goes with a deleted CR and starts empty in a new one.
ConfigChange ==
    /\ pc = "Idle"
    /\ envChanges < MaxEnvChanges
    /\ \E c \in Configs \ {operatorConfig} :
          /\ operatorConfig' = c
          /\ operatorStatus' = IF c.exists /\ operatorConfig.exists THEN operatorStatus ELSE EmptyStatus
    /\ envChanges' = envChanges + 1
    /\ UNCHANGED <<clusterNodes, liveDeployment, liveWebhook, webhookAsset, pc, localVars, err,
                   cycle, steps, changed, atStart, edited, prev>>

\* A node joins or leaves the cluster. sync lists the nodes once, at line 110.
NodeChange ==
    /\ pc = "Idle"
    /\ envChanges < MaxEnvChanges
    /\ \E l \in NodeLabelSets, d \in {0 - 1, 1} :
          /\ clusterNodes[l] + d >= 0
          /\ SumOver(clusterNodes, NodeLabelSets) + d <= MaxNodes
          /\ clusterNodes' = [clusterNodes EXCEPT ![l] = @ + d]
    /\ envChanges' = envChanges + 1
    /\ UNCHANGED <<operatorConfig, operatorStatus, liveDeployment, liveWebhook, webhookAsset, pc,
                   localVars, err, cycle, steps, changed, atStart, edited, prev>>

\* The operator is replaced by a version that ships another webhook_config.yaml.
OperatorUpdate ==
    /\ pc = "Idle"
    /\ envChanges < MaxEnvChanges
    /\ \E a \in WebhookAssets \ {webhookAsset} : webhookAsset' = a
    /\ envChanges' = envChanges + 1
    /\ UNCHANGED <<operatorConfig, operatorStatus, clusterNodes, liveDeployment, liveWebhook, pc,
                   localVars, err, cycle, steps, changed, atStart, edited, prev>>

\* The platform's deployment controller reports on the rollout, at any time.
DeploymentController ==
    /\ liveDeployment.exists
    /\ envChanges < MaxEnvChanges
    /\ \E og \in {liveDeployment.status.observedGeneration, liveDeployment.generation},
          ar \in 0..liveDeployment.spec.replicas[1],
          ur \in 0..liveDeployment.spec.replicas[1] :
          LET st == [observedGeneration |-> og, availableReplicas |-> ar, updatedReplicas |-> ur] IN
          /\ st # liveDeployment.status
          /\ liveDeployment' = [liveDeployment EXCEPT !.status = st]
    /\ envChanges' = envChanges + 1
    /\ UNCHANGED <<operatorConfig, operatorStatus, clusterNodes, liveWebhook, webhookAsset, pc,
                   localVars, err, cycle, steps, changed, atStart, edited, prev>>

\* Somebody scales the Deployment, at any time.
ScaledReplicas == <<0>>
ExternalEditDeployment ==
    /\ liveDeployment.exists
    /\ liveDeployment.spec.replicas # ScaledReplicas
    /\ envChanges < MaxEnvChanges
    /\ liveDeployment' = [liveDeployment EXCEPT !.spec.replicas = ScaledReplicas, !.generation = @ + 1]
    /\ edited' = edited \cup {"deployments"}
    /\ envChanges' = envChanges + 1
    /\ UNCHANGED <<operatorConfig, operatorStatus, clusterNodes, liveWebhook, webhookAsset, pc,
                   localVars, err, cycle, steps, changed, atStart, prev>>

\* Somebody deletes the Deployment, at any time.
ExternalDeleteDeployment ==
    /\ liveDeployment.exists
    /\ envChanges < MaxEnvChanges
    /\ liveDeployment' = NoDeployment
    /\ edited' = edited \cup {"deployments"}
    /\ envChanges' = envChanges + 1
    /\ UNCHANGED <<operatorConfig, operatorStatus, clusterNodes, liveWebhook, webhookAsset, pc,
                   localVars, err, cycle, steps, changed, atStart, prev>>

\* Somebody rewrites the rules of the ValidatingWebhookConfiguration, at any time.
ExternalEditWebhook ==
    /\ liveWebhook.exists
    /\ liveWebhook.spec.webhooks # "rules-edited"
    /\ envChanges < MaxEnvChanges
    /\ liveWebhook' = [liveWebhook EXCEPT !.spec.webhooks = "rules-edited", !.generation = @ + 1]
    /\ edited' = edited \cup {"validatingwebhookconfigurations"}
    /\ envChanges' = envChanges + 1
    /\ UNCHANGED <<operatorConfig, operatorStatus, clusterNodes, liveDeployment, webhookAsset, pc,
                   localVars, err, cycle, steps, changed, atStart, prev>>

\* Somebody deletes the ValidatingWebhookConfiguration, at any time.
ExternalDeleteWebhook ==
    /\ liveWebhook.exists
    /\ envChanges < MaxEnvChanges
    /\ liveWebhook' = NoWebhook
    /\ edited' = edited \cup {"validatingwebhookconfigurations"}
    /\ envChanges' = envChanges + 1
    /\ UNCHANGED <<operatorConfig, operatorStatus, clusterNodes, liveDeployment, webhookAsset, pc,
                   localVars, err, cycle, steps, changed, atStart, prev>>

\* ---------------------------------------------------------------------- Spec
Next ==
    \/ Trigger
    \/ ReadConfig
    \/ RenderWorkload
    \/ SizeReplicas
    \/ ApplyWorkload
    \/ RenderHook
    \/ ApplyHook
    \/ ComputeStatus
    \/ PersistStatus
    \/ ConfigChange
    \/ NodeChange
    \/ OperatorUpdate
    \/ DeploymentController
    \/ ExternalEditDeployment
    \/ ExternalDeleteDeployment
    \/ ExternalEditWebhook
    \/ ExternalDeleteWebhook

Spec == Init /\ [][Next]_vars

\* The trigger substrate goes on calling sync for as long as the controller
\* runs: on every event of the four informers (lines 83-86) and after every
\* call that returned an error. The calls beyond MaxCycles are not counted.
TriggerAgain ==
    /\ pc = "Idle"
    /\ cycle = MaxCycles
    /\ pc' = "ReadConfig"
    /\ steps' = <<>>
    /\ changed' = {}
    /\ err' = "nil"
    /\ atStart' = operatorStatus
    /\ prev' = [(IF LastStep = <<"PersistStatus", "nil">> THEN prev ELSE NoPrev) EXCEPT
                    !.writeFailed = (LastStep = <<"PersistStatus", "UpdateStatusError">>)]
    /\ UNCHANGED <<clusterVars, localVars, cycle, envChanges, edited>>

\* One statement of sync; sync is straight-line code of blocking calls.
SyncStep ==
    \/ ReadConfig
    \/ RenderWorkload
    \/ SizeReplicas
    \/ ApplyWorkload
    \/ RenderHook
    \/ ApplyHook
    \/ ComputeStatus
    \/ PersistStatus

FairNext ==
    \/ Next
    \/ TriggerAgain

\* sync is called again and again, and a call that has begun runs to its return.
FairSpec ==
    /\ Init
    /\ [][FairNext]_vars
    /\ WF_vars(Trigger \/ TriggerAgain)
    /\ WF_vars(SyncStep)

\* ------------------------------------------------- the computation of the status
\* Lines 142-188 for whatever Deployment ApplyDeployment hands back at line
\* 126. The type leaves Spec.Replicas free to be nil (line 165 tests for it),
\* and the generations and counts in the status are whatever the store holds.
MaxReported == 2
ReturnedDeployments ==
    [exists : {TRUE},
     spec : [image : {WebhookImage}, verbosity : {2}, nodeSelector : {{MasterLabel}},
             replicas : {<<>>, <<1>>, <<2>>}],
     generation : 1..MaxReported,
     status : [observedGeneration : 0..MaxReported,
               availableReplicas : 0..MaxReported,
               updatedReplicas : 0..MaxReported]]

\* A first call of sync that has come through both applies.
StatusInit ==
    /\ operatorConfig = [exists |-> TRUE, managementState |-> "Managed", logLevel |-> "Normal"]
    /\ operatorStatus = EmptyStatus
    /\ clusterNodes \in NodeCounts
    /\ liveDeployment \in ReturnedDeployments
    /\ webhookAsset = "rules-v1"
    /\ liveWebhook = [getWebhookConfig.webhookConfig EXCEPT !.exists = TRUE, !.generation = 1]
    /\ pc = "ComputeStatus"
    /\ opSpec = operatorConfig
    /\ opStatus = operatorStatus
    /\ deployment = liveDeployment
    /\ nodes = ListNodes(deployment.spec.nodeSelector)
    /\ webhookConfig = liveWebhook
    /\ deploymentAvailable = NoCondition
    /\ deploymentProgressing = NoCondition
    /\ err = "nil"
    /\ cycle = 1
    /\ envChanges = 0
    /\ steps = <<<<"ReadConfig", "nil">>, <<"RenderWorkload", "nil">>, <<"SizeReplicas", "nil">>,
                 <<"ApplyWorkload", "nil">>, <<"RenderHook", "nil">>, <<"ApplyHook", "nil">>>>
    /\ changed = {}
    /\ atStart = EmptyStatus
    /\ edited = {}
    /\ prev = NoPrev

StatusNext ==
    \/ ComputeStatus
    \/ PersistStatus

StatusSpec == StatusInit /\ [][StatusNext]_vars


\* ==================================================================== claims
Range(seq) == {seq[i] : i \in 1..Len(seq)}
\* The nodes that carry the label the Deployment selects on.
QualifyingNodes == clusterNodes[{MasterLabel}]

C2_AbsentOrUnmanagedIsNoOp ==
    [][(/\ pc = "ReadConfig"
        /\ steps' = Append(steps, <<"ReadConfig", "nil">>)
        /\ \/ ~operatorConfig.exists
           \/ operatorConfig.managementState # "Managed")
       => /\ pc' = "Idle"
          /\ err' = "nil"
          /\ steps' = <<<<"ReadConfig", "nil">>>>
          /\ UNCHANGED <<liveDeployment, liveWebhook, operatorStatus>>]_vars

C2_Witness ==
    /\ pc = "Idle"
    /\ steps = <<<<"ReadConfig", "nil">>>>
    /\ err = "nil"
    /\ operatorConfig.exists
    /\ operatorConfig.managementState = "Unmanaged"
    /\ liveDeployment.exists
    /\ operatorStatus # EmptyStatus

\* C3: when the Deployment was applied and the apply of the webhook
\* configuration then fails, sync returns that error and the status is the one
\* the call started with: no generation and no condition was written.
C3_HookFailureLeavesStatus ==
    [][(/\ pc = "ApplyHook"
        /\ <<"ApplyWorkload", "nil">> \in Range(steps)
        /\ steps' = Append(steps, <<"ApplyHook", "ApplyWebhookError">>))
       => /\ pc' = "Idle"
          /\ err' = "ApplyWebhookError"
          /\ operatorStatus' = atStart]_vars

C3_Witness ==
    /\ pc = "Idle"
    /\ LastStep = <<"ApplyHook", "ApplyWebhookError">>
    /\ err = "ApplyWebhookError"
    /\ "deployments" \in changed
    /\ liveDeployment.exists
    /\ "deployments" \notin DOMAIN operatorStatus.generations


\* C4: the Available condition a sync call writes is True exactly when the
\* Deployment returned by the apply has availableReplicas > 0, and is False
\* with reason "Deploying" otherwise, whatever the number of replicas asked for.
C4_AvailableCondition ==
    [][steps' = Append(steps, <<"PersistStatus", "nil">>)
       => LET written == operatorStatus'.available IN
          /\ written.present
          /\ written.status \in {"True", "False"}
          /\ written.status = "True" <=> deployment.status.availableReplicas > 0
          /\ written.status = "False" => written.reason = "Deploying"]_vars

C4_Witness ==
    /\ pc = "Idle"
    /\ LastStep = <<"PersistStatus", "nil">>
    /\ operatorStatus.available.status = "True"
    /\ liveDeployment.spec.replicas = <<2>>
    /\ liveDeployment.status.availableReplicas = 1

\* C5: the Progressing condition a sync call writes is True when the returned
\* Deployment's observedGeneration differs from its generation; when they are
\* equal it is False if updatedReplicas equals the Deployment's replicas and
\* True otherwise.
C5_ProgressingCondition ==
    [][steps' = Append(steps, <<"PersistStatus", "nil">>)
       => LET written == operatorStatus'.progressing
              skew == deployment.status.observedGeneration # deployment.generation
              reached == deployment.spec.replicas = <<deployment.status.updatedReplicas>> IN
          /\ written.present
          /\ skew => written.status = "True"
          /\ ~skew /\ reached => written.status = "False"
          /\ ~skew /\ ~reached => written.status = "True"
          /\ written.status = "False" => ~skew /\ reached]_vars

C5_Witness ==
    /\ pc = "Idle"
    /\ LastStep = <<"PersistStatus", "nil">>
    /\ operatorStatus.progressing.status = "False"
    /\ liveDeployment.status.observedGeneration = liveDeployment.generation
    /\ liveDeployment.spec.replicas = <<liveDeployment.status.updatedReplicas>>

\* C6: a step of sync that fails ends the call with that step's error, so no
\* later step runs; a call that ends with nil before the status write is one
\* that found no CR or a CR that is not Managed.
C6_FailureShortCircuits ==
    [][steps' # steps /\ steps' # <<>>
       => LET outcome == steps'[Len(steps')][2] IN
          /\ outcome # "nil" => pc' = "Idle" /\ err' = outcome
          /\ outcome = "nil" /\ pc' = "Idle"
                => /\ err' = "nil"
                   /\ \/ pc = "PersistStatus"
                      \/ /\ pc = "ReadConfig"
                         /\ ~operatorConfig.exists \/ operatorConfig.managementState # "Managed"]_vars

C6_Witness ==
    /\ pc = "Idle"
    /\ err = "ListNodesError"
    /\ steps = <<<<"ReadConfig", "nil">>, <<"RenderWorkload", "nil">>, <<"SizeReplicas", "ListNodesError">>>>

\* C7: a sync call that follows a successful one with the same CR spec, the
\* same nodes and the same asset, the objects not having been touched by
\* anybody else since they were applied, changes neither object: both applies
\* report changed = false.
SameInputsAsPrev ==
    /\ prev.valid
    /\ prev.opSpec = opSpec
    /\ prev.nodes = clusterNodes
    /\ prev.asset = webhookAsset

C7_ApplyIdempotent ==
    [][/\ (/\ steps' = Append(steps, <<"ApplyWorkload", "nil">>)
           /\ SameInputsAsPrev
           /\ "deployments" \notin edited)
          => /\ liveDeployment' = liveDeployment
             /\ "deployments" \notin changed'
       /\ (/\ steps' = Append(steps, <<"ApplyHook", "nil">>)
           /\ SameInputsAsPrev
           /\ "validatingwebhookconfigurations" \notin edited)
          => /\ liveWebhook' = liveWebhook
             /\ "validatingwebhookconfigurations" \notin changed']_vars

C7_Witness ==
    /\ pc = "ComputeStatus"
    /\ SameInputsAsPrev
    /\ edited = {}
    /\ changed = {}
    /\ liveDeployment.exists
    /\ liveWebhook.exists

\* C8: with a log level that is none of Normal, Debug, Trace and TraceAll the
\* rendering of the Deployment fails: sync returns an error, having applied
\* nothing and written no status.
C8_InvalidLogLevel ==
    [][(/\ pc = "RenderWorkload"
        /\ steps' # steps
        /\ opSpec.logLevel \notin {"Normal", "Debug", "Trace", "TraceAll"})
       => /\ pc' = "Idle"
          /\ err' # "nil"
          /\ Len(steps') = 2
          /\ UNCHANGED <<liveDeployment, liveWebhook, operatorStatus>>]_vars

C8_Witness ==
    /\ pc = "Idle"
    /\ err = "InvalidLogLevel"
    /\ steps = <<<<"ReadConfig", "nil">>, <<"RenderWorkload", "InvalidLogLevel">>>>
    /\ operatorConfig.logLevel = "Bogus"

\* C9: while the CR stays, the generation recorded for an object changes only
\* in the status write of a sync call that applied that object, and it becomes
\* the generation of the object that apply returned.
ApplyStepOf(kind) == IF kind = "deployments" THEN "ApplyWorkload" ELSE "ApplyHook"
ReturnedBy(kind) == IF kind = "deployments" THEN deployment.generation ELSE webhookConfig.generation

C9_RecordFollowsApply ==
    [][\A kind \in Kinds :
          (/\ operatorConfig' = operatorConfig
           /\ ExpectedGeneration(kind, operatorStatus'.generations)
                 # ExpectedGeneration(kind, operatorStatus.generations))
          => /\ pc = "PersistStatus"
             /\ <<ApplyStepOf(kind), "nil">> \in Range(steps)
             /\ ExpectedGeneration(kind, operatorStatus'.generations) = ReturnedBy(kind)]_vars

C9_Witness ==
    /\ pc = "Idle"
    /\ LastStep = <<"PersistStatus", "nil">>
    /\ ExpectedGeneration("deployments", operatorStatus.generations) = 2
    /\ ExpectedGeneration("deployments", atStart.generations) = 1
    /\ ExpectedGeneration("validatingwebhookconfigurations", operatorStatus.generations) = 1

\* C10: whatever generation the status records for an object, an apply that
\* finds the live object missing or different from the desired one writes the
\* desired one.
C10_StaleRecordDoesNotSuppress ==
    [][/\ (/\ steps' = Append(steps, <<"ApplyWorkload", "nil">>)
           /\ ~liveDeployment.exists \/ liveDeployment.spec # deployment.spec)
          => /\ liveDeployment'.exists
             /\ liveDeployment'.spec = deployment.spec
             /\ "deployments" \in changed'
       /\ (/\ steps' = Append(steps, <<"ApplyHook", "nil">>)
           /\ ~liveWebhook.exists \/ liveWebhook.spec # webhookConfig.spec)
          => /\ liveWebhook'.exists
             /\ liveWebhook'.spec = webhookConfig.spec
             /\ "validatingwebhookconfigurations" \in changed']_vars

\* The record is older than the live Deployment, which somebody has scaled.
C10_Witness ==
    /\ pc = "RenderHook"
    /\ "deployments" \in changed
    /\ ExpectedGeneration("deployments", opStatus.generations) = 1
    /\ deployment.generation = 3
    /\ deployment.spec.replicas # ScaledReplicas

\* C11: a call whose two applies succeeded and whose status write fails returns
\* the error of the write and leaves the status as it was; the next call that
\* gets through without a failure writes both conditions and records, for both
\* objects, the generation its own apply returned.
C11_StatusWriteRetried ==
    [][/\ steps' = Append(steps, <<"PersistStatus", "UpdateStatusError">>)
          => /\ <<"ApplyWorkload", "nil">> \in Range(steps)
             /\ <<"ApplyHook", "nil">> \in Range(steps)
             /\ pc' = "Idle"
             /\ err' = "UpdateStatusError"
             /\ operatorStatus' = operatorStatus
       /\ (/\ prev.writeFailed
           /\ steps' = Append(steps, <<"PersistStatus", "nil">>))
          => /\ err' = "nil"
             /\ operatorStatus'.available = [deploymentAvailable EXCEPT !.present = TRUE]
             /\ operatorStatus'.progressing = [deploymentProgressing EXCEPT !.present = TRUE]
             /\ operatorStatus'.generations =
                    [kind \in Kinds |-> ReturnedBy(kind)]]_vars

\* The first call created both objects and failed to write the status; the
\* second call wrote it.
C11_Witness ==
    /\ pc = "Idle"
    /\ LastStep = <<"PersistStatus", "nil">>
    /\ prev.writeFailed
    /\ atStart = EmptyStatus
    /\ changed = {}
    /\ operatorStatus.available.present
    /\ operatorStatus.progressing.present
    /\ DOMAIN operatorStatus.generations = Kinds

\* C12: if from some point on the CR is there and Managed and no step of sync
\* fails any more (the log level is valid, the asset decodes, the API calls
\* succeed), then, sync being called again and again and the nodes and the
\* objects being left alone from some point on, the live Deployment ends up
\* with the replicas the policy gives for the nodes and the live webhook
\* configuration ends up equal to the rendered one, and both stay so.
NoStepFails == steps' = steps \/ steps' = <<>> \/ steps'[Len(steps')][2] = "nil"

Converged ==
    /\ liveDeployment.exists
    /\ liveDeployment.spec.replicas = <<IF QualifyingNodes >= 2 THEN 2 ELSE 1>>
    /\ liveWebhook.exists
    /\ liveWebhook.spec = [specHash |-> SpecHash(webhookAsset), webhooks |-> webhookAsset]

C12_Convergence ==
    (/\ <>[](operatorConfig.exists /\ operatorConfig.managementState = "Managed")
     /\ <>[][NoStepFails]_vars)
    => <>[]Converged

\* Somebody scaled the Deployment after sync had created it, and a later call
\* has put the replicas back.
C12_Witness ==
    /\ pc = "Idle"
    /\ LastStep = <<"PersistStatus", "nil">>
    /\ Converged
    /\ liveDeployment.generation = 3
    /\ envChanges = MaxEnvChanges

\* C13: the steps of a call are taken in the order ReadConfig, RenderWorkload,
\* SizeReplicas, ApplyWorkload, RenderHook, ApplyHook, ComputeStatus,
\* PersistStatus, each one only after all the ones before it have succeeded;
\* so ApplyHook comes after a successful ApplyWorkload, and PersistStatus after
\* both applies have succeeded.
StepOrder == <<"ReadConfig", "RenderWorkload", "SizeReplicas", "ApplyWorkload",
               "RenderHook", "ApplyHook", "ComputeStatus", "PersistStatus">>

C13_FixedStepOrder ==
    /\ Len(steps) <= Len(StepOrder)
    /\ \A i \in 1..Len(steps) :
          /\ steps[i][1] = StepOrder[i]
          /\ i < Len(steps) => steps[i][2] = "nil"
    /\ pc # "Idle" => Len(steps) < Len(StepOrder) /\ pc = StepOrder[Len(steps) + 1]
    /\ pc \in {"ApplyHook", "ComputeStatus", "PersistStatus"} => <<"ApplyWorkload", "nil">> \in Range(steps)
    /\ pc \in {"ComputeStatus", "PersistStatus"} => <<"ApplyHook", "nil">> \in Range(steps)

C13_Witness ==
    /\ pc = "Idle"
    /\ Len(steps) = Len(StepOrder)
    /\ LastStep = <<"PersistStatus", "UpdateStatusError">>
    /\ changed = Kinds

\* C14: the status holds both conditions and both generation records or none
\* of the four, and a step of sync that changes the status is the one status
\* write of a call, which sets all four from the values of that call.
AllOrNothing ==
    \/ operatorStatus = EmptyStatus
    \/ /\ operatorStatus.available.present
       /\ operatorStatus.progressing.present
       /\ DOMAIN operatorStatus.generations = Kinds

C15_ConditionsFromAppliedWorkload ==
    [][/\ steps' = Append(steps, <<"ApplyWorkload", "nil">>) => deployment' = liveDeployment'
       /\ (pc \in {"RenderHook", "ApplyHook", "ComputeStatus", "PersistStatus"} /\ pc' # "Idle")
          => deployment' = deployment
       /\ steps' = Append(steps, <<"PersistStatus", "nil">>)
          => LET a == operatorStatus'.available
                 p == operatorStatus'.progressing
                 s == deployment.status IN
             /\ a.status = (IF s.availableReplicas > 0 THEN "True" ELSE "False")
             /\ p.status = (IF /\ s.observedGeneration = deployment.generation
                                /\ deployment.spec.replicas = <<s.updatedReplicas>>
                             THEN "False" ELSE "True")
             /\ p.message.text = "desired generation %d, current generation %d"
                   => p.message.a = deployment.generation /\ p.message.b = s.observedGeneration
             /\ p.message.text = "%d out of %d pods running"
                   => <<p.message.a>> = <<s.updatedReplicas>> /\ <<p.message.b>> = deployment.spec.replicas]_vars

\* The deployment controller reported a pod available after ApplyDeployment had
\* returned, and this call's apply of the webhook configuration created it.
C15_Witness ==
    /\ pc = "PersistStatus"
    /\ deployment.status.availableReplicas = 0
    /\ liveDeployment.status.availableReplicas > 0
    /\ liveDeployment.status.observedGeneration = liveDeployment.generation
    /\ deploymentAvailable.status = "False"
    /\ deploymentProgressing.status = "True"
    /\ "validatingwebhookconfigurations" \in changed

\* C16: what a call is about to apply, and the conditions it is about to
\* write, are given by the CR, the nodes and the asset as they are now and by
\* the Deployment the apply returned, and by nothing else: not by the number
\* of calls made, the status recorded or the inputs of earlier calls. The
\* replicas asked for are those of the nodes there are now.
C16_CycleIsPureFunction ==
    /\ pc = "ApplyWorkload" =>
          deployment = [NoDeployment EXCEPT
              !.spec = [image |-> WebhookImage,
                        verbosity |-> LogLevelToVerbosity(operatorConfig.logLevel),
                        nodeSelector |-> {MasterLabel},
                        replicas |-> <<IF QualifyingNodes >= 2 THEN 2 ELSE 1>>]]
    /\ pc = "ApplyHook" =>
          webhookConfig = [NoWebhook EXCEPT
              !.spec = [specHash |-> SpecHash(webhookAsset), webhooks |-> webhookAsset]]
    /\ pc = "PersistStatus" =>
          /\ deploymentAvailable = ComputeAvailable(deployment)
          /\ deploymentProgressing = ComputeProgressing(deployment)

\* A node has gone since the last call, which asked for two replicas; this
\* call asks for one.
C16_Witness ==
    /\ pc = "ApplyWorkload"
    /\ prev.valid
    /\ prev.nodes[{MasterLabel}] = 2
    /\ QualifyingNodes = 1
    /\ liveDeployment.spec.replicas = <<2>>
    /\ deployment.spec.replicas = <<1>>

\* C17: what a call without failures makes of the two live objects and the
\* status is the same before and after every step of sync, whether the step
\* succeeds or fails: a call that fails, at whatever step, leaves the cluster
\* in a state from which the next call without failures ends where it would
\* have ended had the failed call not been made. A call without failures, the
\* objects not being touched by others meanwhile, does end there.
CanSucceed ==
    \/ ~operatorConfig.exists
    \/ ~IsManaged(operatorConfig)
    \/ getDeployment(operatorConfig).err = "nil" /\ getWebhookConfig.err = "nil"

\* The two live objects and the status as a call of sync without failures
\* leaves them, lines 90-189 composed.
SyncOutcome ==
    IF ~operatorConfig.exists \/ ~IsManaged(operatorConfig)
    THEN [deployment |-> liveDeployment, webhook |-> liveWebhook, status |-> operatorStatus]
    ELSE LET rendered == getDeployment(operatorConfig).deployment
             sized == [rendered EXCEPT !.spec.replicas = <<Replicas(ListNodes(rendered.spec.nodeSelector))>>]
             d == ApplyCall(liveDeployment, sized,
                            ExpectedGeneration("deployments", operatorStatus.generations)).live
             w == ApplyCall(liveWebhook, getWebhookConfig.webhookConfig,
                            ExpectedGeneration("validatingwebhookconfigurations", operatorStatus.generations)).live
         IN [deployment |-> d,
             webhook |-> w,
             status |-> UpdateStatus(operatorStatus, ComputeAvailable(d), ComputeProgressing(d),
                                     updateGenerationFn(operatorStatus.generations, d, w))]

C17_ReEntrant ==
    [][(CanSucceed /\ steps' # steps /\ steps' # <<>>)
       => /\ SyncOutcome' = SyncOutcome
          /\ (/\ pc' = "Idle"
              /\ err' = "nil"
              /\ pc = "PersistStatus" => deployment = liveDeployment /\ webhookConfig = liveWebhook)
             => SyncOutcome = [deployment |-> liveDeployment', webhook |-> liveWebhook',
                               status |-> operatorStatus']]_vars

\* Nobody but sync has acted. The first call created the Deployment and failed
\* before it had created the webhook configuration; the second call found the
\* Deployment as it wanted it, created the webhook configuration and wrote the
\* status, which is where a first call without failures would have ended.
C17_Witness ==
    /\ pc = "Idle"
    /\ cycle = 2
    /\ envChanges = 0
    /\ LastStep = <<"PersistStatus", "nil">>
    /\ atStart = EmptyStatus
    /\ changed = {"validatingwebhookconfigurations"}
    /\ liveDeployment.generation = 1
    /\ liveWebhook.generation = 1
    /\ SyncOutcome = [deployment |-> liveDeployment, webhook |-> liveWebhook, status |-> operatorStatus]

\* C18: the webhook configuration sync applies carries the hash of its own
\* Webhooks[]; when the asset's Webhooks[] differ from those of the last
\* successful call, the hash differs from the live one and the apply writes
\* the new object.
C18_RuleSetChangeIsWritten ==
    [][steps' = Append(steps, <<"ApplyHook", "nil">>)
       => /\ webhookConfig.spec.specHash = SpecHash(webhookConfig.spec.webhooks)
          /\ webhookConfig.spec.webhooks = webhookAsset
          /\ (/\ prev.valid
              /\ prev.asset # webhookAsset
              /\ liveWebhook.exists
              /\ liveWebhook.spec.webhooks = prev.asset)
             => /\ liveWebhook.spec.specHash # webhookConfig.spec.specHash
                /\ liveWebhook'.spec = webhookConfig.spec
                /\ liveWebhook'.generation = liveWebhook.generation + 1
                /\ "validatingwebhookconfigurations" \in changed']_vars

\* The operator has been updated to an asset with other rules, and the next
\* call has written them.
C18_Witness ==
    /\ pc = "ComputeStatus"
    /\ prev.valid
    /\ prev.asset = "rules-v1"
    /\ webhookAsset = "rules-v2"
    /\ "validatingwebhookconfigurations" \in changed
    /\ liveWebhook.generation = 2
    /\ liveWebhook.spec = [specHash |-> SpecHash("rules-v2"), webhooks |-> "rules-v2"]

C20_ReadErrorIsReturned ==
    [][pc = "ReadConfig" /\ steps' # steps
       => /\ steps' = <<<<"ReadConfig", "GetOperatorStateError">>>>
             => /\ pc' = "Idle"
                /\ err' = "GetOperatorStateError"
                /\ UNCHANGED <<liveDeployment, liveWebhook, operatorStatus, localVars>>
          /\ (pc' = "Idle" /\ err' = "nil")
             => /\ steps' = <<<<"ReadConfig", "nil">>>>
                /\ ~operatorConfig.exists \/ operatorConfig.managementState # "Managed"]_vars

\* The read failed in a call made after somebody had scaled the Deployment:
\* the Deployment is still as that left it.
C20_Witness ==
    /\ pc = "Idle"
    /\ steps = <<<<"ReadConfig", "GetOperatorStateError">>>>
    /\ err = "GetOperatorStateError"
    /\ operatorConfig.exists
    /\ operatorConfig.managementState = "Managed"
    /\ "deployments" \in edited
    /\ liveDeployment.spec.replicas = ScaledReplicas


====
